---- MODULE Spec2Model ----
(***************************************************************************)
(* CarePrep AI, ai-service: the AI-response acquisition pipeline of        *)
(* app/processors/ai_processor.py (class AIProcessor).                     *)
(*                                                                         *)
(* A request is one call of an AIProcessor operation on a freshly          *)
(* constructed AIProcessor, or the two calls that the handler of           *)
(* POST /process/document makes on one.  The remote completion endpoint is *)
(* the environment: every requests.post is answered by an outcome chosen   *)
(* nondeterministically.                                                   *)
(*                                                                         *)
(* Text.  A Python str is a sequence of pieces.  A piece is one character  *)
(* ("a", "\n", ...) in every text that comes from outside (document text,  *)
(* chat message, model reply); a string literal of the source that is      *)
(* copied into a result unchanged is kept as one piece.  len() and slices  *)
(* are only taken of outside texts, where a piece is a character.  The     *)
(* character U+2022 (bullet) is written "(U+2022)".                        *)
(***************************************************************************)
EXTENDS Integers, Sequences, FiniteSets, TLC

(* ---------------- program constants ---------------- *)

max_retries == 3
retry_delay == 1
OcrMinLen == 50
FallbackListMax == 10
DocPreviewLen == 1000
FallbackPreviewLen == 500
SummaryMaxLen == 1500

(* ---------------- bounds of the model ---------------- *)

\* Number of request slots; Spec uses the first one only.
NumReq == 2
\* Longest symptom list beyond the cut of the fallback list (FallbackListMax + MaxExtra).
MaxExtra == 1

Reqs == 1..NumReq

(* ---------------- text ---------------- *)

\* n copies of the character c
Rep(n, c) == [i \in 1..n |-> c]

\* s[:n]
Prefix(s, n) == IF Len(s) > n THEN SubSeq(s, 1, n) ELSE s

\* sub in s  (substring test)
Contains(s, sub) ==
    \E i \in 0..(Len(s) - Len(sub)) : SubSeq(s, i + 1, i + Len(sub)) = sub

RECURSIVE Join(_, _)
\* sep.join(parts)
Join(parts, sep) ==
    IF parts = <<>> THEN <<>>
    ELSE IF Len(parts) = 1 THEN parts[1]
    ELSE parts[1] \o sep \o Join(Tail(parts), sep)

MEDICAL_DISCLAIMER ==
    << "\nIMPORTANT MEDICAL DISCLAIMER:\n- This information is for EDUCATIONAL and ORGANIZATIONAL purposes ONLY\n- This is NOT medical advice, diagnosis, or treatment\n- ALWAYS consult a qualified healthcare professional for medical decisions\n- In case of emergency, call emergency services immediately\n" >>


SetMin(S) == CHOOSE x \in S : \A y \in S : x <= y

SetMax(S) == CHOOSE x \in S : \A y \in S : x >= y

\* s[a:b], offsets counted from 0
Slice(s, a, b) == SubSeq(s, a + 1, b)

\* the whitespace class \s of re, which is also what str.strip() removes
SpaceChars == {" ", "\t", "\n", "\r", "\f"}

\* the class [:\s]
ColonSpaceChars == SpaceChars \cup {":"}

\* the bullets [-(U+2022)] of the red-flag pattern
BulletChars == {"-", "(U+2022)"}

LowerCase ==
    << "a", "b", "c", "d", "e", "f", "g", "h", "i", "j", "k", "l", "m",
       "n", "o", "p", "q", "r", "s", "t", "u", "v", "w", "x", "y", "z" >>

UpperCase ==
    << "A", "B", "C", "D", "E", "F", "G", "H", "I", "J", "K", "L", "M",
       "N", "O", "P", "Q", "R", "S", "T", "U", "V", "W", "X", "Y", "Z" >>

\* case folding of re.IGNORECASE
Fold(c) ==
    IF \E i \in DOMAIN LowerCase : LowerCase[i] = c
    THEN UpperCase[CHOOSE i \in DOMAIN LowerCase : LowerCase[i] = c]
    ELSE c

\* str.strip()
Strip(s) ==
    LET keep == {i \in 1..Len(s) : s[i] \notin SpaceChars}
    IN  IF keep = {} THEN <<>> ELSE SubSeq(s, SetMin(keep), SetMax(keep))

\* the literal lit matches s at offset p, ignoring case
LitAt(s, p, lit) ==
    /\ p + Len(lit) <= Len(s)
    /\ \A i \in 1..Len(lit) : Fold(s[p + i]) = Fold(lit[i])

\* cls* (greedy) at offset p: how many characters of the class follow
Run(s, p, cls) ==
    SetMin({j \in p..Len(s) : j = Len(s) \/ s[j + 1] \notin cls}) - p

(* ---------------- the section labels of the reply ---------------- *)

LblSummary ==
    << "*", "*", "P", "A", "T", "I", "E", "N", "T", "-", "F", "R", "I", "E", "N", "D", "L",
       "Y", " ", "S", "U", "M", "M", "A", "R", "Y", "*", "*" >>

LblMedications ==
    << "*", "*", "M", "E", "D", "I", "C", "A", "T", "I", "O", "N", "S", "*", "*" >>

LblFollowUpActions ==
    << "*", "*", "F", "O", "L", "L", "O", "W", "-", "U", "P", " ", "A", "C", "T", "I", "O",
       "N", "S", "*", "*" >>

LblFollowUpAction ==
    << "*", "*", "F", "O", "L", "L", "O", "W", "-", "U", "P", " ", "A", "C", "T", "I", "O",
       "N", "*", "*" >>

LblFollowUpBare ==
    << "*", "*", "F", "O", "L", "L", "O", "W", "-", "U", "P", " ", "*", "*" >>

\* the header without the word ACTIONS and without the space before it
LblFollowUp ==
    << "*", "*", "F", "O", "L", "L", "O", "W", "-", "U", "P", "*", "*" >>

LblRedFlags ==
    << "*", "*", "R", "E", "D", " ", "F", "L", "A", "G", "S", "*", "*" >>

StopFollowUp ==
    << "*", "*", "F", "O", "L", "L", "O", "W", "-", "U", "P" >>

StopRedFlags ==
    << "*", "*", "R", "E", "D", " ", "F", "L", "A", "G", "S" >>

LitName ==
    << "n", "a", "m", "e", ":" >>

LitAction ==
    << "a", "c", "t", "i", "o", "n", ":" >>

\* \*\*FOLLOW-UP (?:ACTIONS?)?\*\*
FollowUpLabels == {LblFollowUpActions, LblFollowUpAction, LblFollowUpBare}

(* ---------------- StructuredExtractor: the regular expressions ---------------- *)

NoMatch == [found |-> FALSE, text |-> <<>>]

\* $ without re.MULTILINE: the end of s, or just before a final newline
AtEnd(s, e) == e = Len(s) \/ (e = Len(s) - 1 /\ s[Len(s)] = "\n")

\* (.+?)(?=STOP|...|$) from offset q: the group ends at the first later offset
\* where a stop label starts or $ matches
SectionGroup(s, q, stops) ==
    [found |-> TRUE,
     text |-> Slice(s, q, SetMin({e \in (q + 1)..Len(s) :
                                     AtEnd(s, e) \/ \E t \in stops : LitAt(s, e, t)}))]

\* [:\s]* from offset p, the end of the label: greedy, and gives one character
\* back when it ran to the end of s and nothing is left for (.+?)
SectionAfterLabel(s, p, run, stops) ==
    SectionGroup(s, IF p + run < Len(s) THEN p + run ELSE Len(s) - 1, stops)

\* the offsets where one of the labels ends, the label starting at offset i
LabelEnds(s, i, labels) == {i + Len(l) : l \in {l \in labels : LitAt(s, i, l)}}

\* the leftmost match starts at the least of the offsets `starts`
SectionAt(s, i, labels, stops) ==
    SectionAfterLabel(s, SetMin(LabelEnds(s, i, labels)),
                      Run(s, SetMin(LabelEnds(s, i, labels)), ColonSpaceChars), stops)

SectionFirst(s, starts, labels, stops) ==
    IF starts = {} THEN NoMatch ELSE SectionAt(s, SetMin(starts), labels, stops)

\* re.search(r'LABEL[:\s]*(.+?)(?=STOP|...|$)', s, re.DOTALL | re.IGNORECASE):
\* group 1 of the leftmost match.  A label matches where at least one character
\* follows it, for (.+?) to take.
SectionSearch(s, labels, stops) ==
    SectionFirst(s, {i \in 0..Len(s) : \E p \in LabelEnds(s, i, labels) : p < Len(s)},
                 labels, stops)

NoItem == [ok |-> FALSE, from |-> 0, to |-> 0, end |-> 0]

\* (.+?)(?:\n|$) from offset q: "." takes no newline, so the group ends at the
\* end of the line, and the newline, if there is one, is consumed
ItemGroup(g, q, e) ==
    [ok |-> TRUE, from |-> q, to |-> e, end |-> IF e < Len(g) THEN e + 1 ELSE e]

ItemFrom(g, q) ==
    ItemGroup(g, q, SetMin({e \in (q + 1)..Len(g) : e = Len(g) \/ g[e + 1] = "\n"}))

\* \s* from offset p, before the group: greedy, giving characters back until a
\* character that is no newline is left for the group; B holds the lengths that do
ItemSpaces(g, p, B) == IF B = {} THEN NoItem ELSE ItemFrom(g, p + SetMax(B))

ItemAfterLit(g, p) ==
    ItemSpaces(g, p, {b \in 0..Run(g, p, SpaceChars) :
                         p + b < Len(g) /\ g[p + b + 1] # "\n"})

\* lit at offset p (the \s* before a literal cannot give characters back: no
\* literal starts with a space)
ItemLit(g, p, lit) ==
    IF LitAt(g, p, lit) THEN ItemAfterLit(g, p + Len(lit)) ELSE NoItem

\* one match of  [starts]\s*lit\s*(.+?)(?:\n|$)  beginning at offset i; lit may be
\* empty, and then the pattern has one \s*
ItemMatch(g, i, starts, lit) ==
    IF ~(i < Len(g) /\ g[i + 1] \in starts) THEN NoItem
    ELSE ItemLit(g, IF lit = <<>> THEN i + 1 ELSE i + 1 + Run(g, i + 1, SpaceChars), lit)

RECURSIVE FindAllFrom(_, _, _, _)

\* mutant of FindAllNext: re.search in place of re.findall, the first match only
FindAllFirstOnly(g, m, starts, lit) == <<Slice(g, m.from, m.to)>>

\* the match m, then the matches after it
FindAllNext(g, m, starts, lit) ==
    <<Slice(g, m.from, m.to)>> \o FindAllFrom(g, m.end, starts, lit)

FindAllHits(g, hits, starts, lit) ==
    IF hits = {} THEN <<>>
    ELSE FindAllNext(g, ItemMatch(g, SetMin(hits), starts, lit), starts, lit)

\* re.findall of the item pattern in g from offset pos: group 1 of every match,
\* left to right, each search resuming where the previous match ended
FindAllFrom(g, pos, starts, lit) ==
    FindAllHits(g, {i \in pos..(Len(g) - 1) : ItemMatch(g, i, starts, lit).ok},
                starts, lit)

FindAll(g, starts, lit) == FindAllFrom(g, 0, starts, lit)

\* [item.strip() for item in items]
StripAll(items) == [i \in 1..Len(items) |-> Strip(items[i])]

NonEmpty(s) == s # <<>>

\* the items of a section: findall in group 1 of the section's match, if any
SectionItems(match, starts, lit) ==
    IF match.found THEN StripAll(FindAll(match.text, starts, lit)) ELSE <<>>

\* mutant of PatientSummary: without the else branch of lines 275-277
PatientSummaryOrEmpty(content, summary_match) ==
    IF summary_match.found THEN Strip(summary_match.text) ELSE <<>>

\* mutant of PatientSummary: the else branch without the cut of line 277
PatientSummaryUncut(content, summary_match) ==
    IF summary_match.found THEN Strip(summary_match.text) ELSE content

\* lines 273-277: the matched span, or the first SummaryMaxLen characters
PatientSummary(content, summary_match) ==
    IF summary_match.found THEN Strip(summary_match.text)
    ELSE Prefix(content, SummaryMaxLen)

\* lines 289-295
Medications(names) ==
    [i \in 1..Len(names) |->
        [name |-> names[i],
         dosage |-> <<"As prescribed">>,
         timing |-> <<"Follow doctor instructions">>,
         notes |-> <<>>]]

\* lines 306-310
FollowUps(actions) ==
    [i \in 1..Len(actions) |-> [action |-> actions[i], timing |-> <<"As scheduled">>]]

\* AIProcessor._parse_document_summary
_parse_document_summary(content) ==
    [patientSummary |->
         PatientSummary(content,
             SectionSearch(content, {LblSummary},
                           {LblMedications, StopFollowUp, StopRedFlags})),
     medications |->
         Medications(SectionItems(
             SectionSearch(content, {LblMedications}, {StopFollowUp, StopRedFlags}),
             {"-"}, LitName)),
     followUps |->
         FollowUps(SectionItems(
             SectionSearch(content, FollowUpLabels, {StopRedFlags}), {"-"}, LitAction)),
     redFlags |->
         SelectSeq(SectionItems(SectionSearch(content, {LblRedFlags}, {}),
                                BulletChars, <<>>),
                   NonEmpty)]

(* ---------------- values ---------------- *)

\* what a call gives back: a value, or an exception that leaves the callee
Returned(v) == [status |-> "returned", value |-> v]

Raised(e) == [status |-> "raised", value |-> e]

Pending == [status |-> "pending", value |-> <<>>]

\* what _make_request gives back: None, a str, or an exception
None == [kind |-> "none", text |-> <<>>]

Text(t) == [kind |-> "text", text |-> t]

Raise(e) == [kind |-> "raise", text |-> <<e>>]

NotCalled == [kind |-> "notcalled", text |-> <<>>]

\* mutant of Truthy: `if content is not None:`
TruthyAnyText(v) == v.kind = "text"

\* the truth value Python gives `content` in `if content:`
Truthy(v) == v.kind = "text" /\ v.text # <<>>

(* ---------------- symptom records (JSON values of the request body) ---------------- *)

NoFields == [k \in {} |-> <<>>]

\* a JSON object with every key of the documented record
SymFull ==
    [json |-> "object",
     fields |-> [date |-> <<"2024-01-15">>, symptom |-> <<"Headache">>,
                 severity |-> <<"7">>, notes |-> <<"Started in the morning">>]]

\* a JSON object with no key: every s.get falls to its default
SymEmpty == [json |-> "object", fields |-> NoFields]

\* a JSON string where a record is expected: it has no .get
SymString == [json |-> "string", fields |-> NoFields]

IsDict(s) == s.json = "object"

\* s.get(k, default)
Get(s, k, default) == IF k \in DOMAIN s.fields THEN s.fields[k] ELSE default

\* items[:n] holds an element whose .get raises AttributeError
HasNonDict(items, n) == \E i \in 1..Len(Prefix(items, n)) : ~IsDict(items[i])

(* ---------------- FallbackSynthesizer ---------------- *)

\* one line of symptom_list in _fallback_symptom_summary
SymptomLine(s) ==
    <<"(U+2022) ">> \o Get(s, "date", <<"Unknown date">>) \o <<": ">>
        \o Get(s, "symptom", <<"Unknown symptom">>) \o <<" (Severity: ">>
        \o Get(s, "severity", <<"N/A">>) \o <<"/10)">>

\* mutant of _fallback_symptom_summary: the template without its last line
_fallback_symptom_summary_no_disclaimer(symptoms) ==
    [success |-> TRUE,
     summary |->
         <<"**Symptom Summary for Your Doctor**\n\nYou have logged ">>
         \o <<ToString(Len(symptoms))>> \o <<" symptom(s).">>]

\* AIProcessor._fallback_symptom_summary, where it returns
_fallback_symptom_summary(symptoms) ==
    LET shown == Prefix(symptoms, FallbackListMax)
        symptom_list == Join([i \in 1..Len(shown) |-> SymptomLine(shown[i])], <<"\n">>)
    IN  [success |-> TRUE,
         summary |->
             <<"**Symptom Summary for Your Doctor**\n\nYou have logged ">>
             \o <<ToString(Len(symptoms))>>
             \o <<" symptom(s). Here's a summary to share with your healthcare provider:\n\n">>
             \o symptom_list
             \o <<"\n\n**Next Steps:**\n(U+2022) Discuss these symptoms with your doctor\n(U+2022) Mention any patterns you've noticed\n(U+2022) Ask about possible causes and treatments\n\n">>
             \o MEDICAL_DISCLAIMER]

\* a call of _fallback_symptom_summary: s.get raises on an element of
\* symptoms[:10] that is not a dict, and nothing in the method catches it
SymptomFallback(symptoms) ==
    IF HasNonDict(symptoms, FallbackListMax) THEN Raised("AttributeError")
    ELSE Returned(_fallback_symptom_summary(symptoms))

Ellipsis == <<".", ".", ".">>

\* mutant of Preview: the cut without the '...' after it
PreviewNoEllipsis(text, n) == IF Len(text) > n THEN SubSeq(text, 1, n) ELSE text

\* text[:n] + '...' if len(text) > n else text
Preview(text, n) == IF Len(text) > n THEN SubSeq(text, 1, n) \o Ellipsis ELSE text

FallbackFollowUp ==
    [action |-> <<"Discuss this document with your healthcare provider">>,
     timing |-> <<"At your next appointment">>]

FallbackRedFlag == <<"Contact your doctor if you have questions about this document">>

\* mutant of _fallback_document_summary: the fallback reports a failure
_fallback_document_summary_failed(document_text) ==
    [success |-> FALSE,
     processedText |-> document_text,
     doctorSummary |-> Preview(document_text, FallbackPreviewLen),
     patientSummary |-> Preview(document_text, FallbackPreviewLen) \o MEDICAL_DISCLAIMER,
     medications |-> <<>>,
     followUps |-> <<FallbackFollowUp>>,
     redFlags |-> <<FallbackRedFlag>>]

\* mutant of _fallback_document_summary: the fallback leaves 'medications' out
_fallback_document_summary_no_medications(document_text) ==
    [success |-> TRUE,
     processedText |-> document_text,
     doctorSummary |-> Preview(document_text, FallbackPreviewLen),
     patientSummary |-> Preview(document_text, FallbackPreviewLen) \o MEDICAL_DISCLAIMER,
     followUps |-> <<FallbackFollowUp>>,
     redFlags |-> <<FallbackRedFlag>>]

\* AIProcessor._fallback_document_summary
_fallback_document_summary(document_text) ==
    LET preview == Preview(document_text, FallbackPreviewLen)
    IN  [success |-> TRUE,
         processedText |-> document_text,
         doctorSummary |-> preview,
         patientSummary |->
             <<"Your document has been processed. Here's a preview:\n\n">>
             \o preview
             \o <<"\n\nFor a detailed explanation of this document, please consult with your healthcare provider.\n\n">>
             \o MEDICAL_DISCLAIMER,
         medications |-> <<>>,
         followUps |-> <<FallbackFollowUp>>,
         redFlags |-> <<FallbackRedFlag>>]

PreVisitGuidance ==
    <<"I understand you have a question about preparing for your doctor visit.\n\nWhile I can't provide specific advice right now, here are some general tips:\n\n1. **Write down your symptoms** - Note when they started, how often they occur, and their severity\n2. **List your medications** - Include supplements and over-the-counter drugs\n3. **Prepare your questions** - Write them down so you don't forget\n4. **Bring relevant documents** - Test results, previous records, etc.\n\nYour question was: ">>

PreVisitClosing ==
    <<"\n\nPlease discuss this with your healthcare provider during your visit.\n\n">>

PostVisitGuidance ==
    <<"I understand you have a question about your visit notes.\n\nWhile I can't process your specific question right now, here's general guidance:\n\n1. **Review your documents** - Read through them carefully\n2. **Note any unclear terms** - Ask your doctor to explain\n3. **Follow medication instructions** - Take as prescribed\n4. **Schedule follow-ups** - As recommended by your doctor\n\nYour question was: ">>

PostVisitClosing ==
    <<"\n\nFor specific questions about your treatment, please contact your healthcare provider.\n\n">>

Quote == <<"\"">>

\* mutant of _fallback_chat_response: the templates without their last line
_fallback_chat_response_no_disclaimer(message, mode) ==
    [success |-> TRUE,
     response |->
         IF mode = "pre_visit"
         THEN PreVisitGuidance \o Quote \o message \o Quote \o PreVisitClosing
         ELSE PostVisitGuidance \o Quote \o message \o Quote \o PostVisitClosing]

\* mutant of _fallback_chat_response: one template for every mode
_fallback_chat_response_one_template(message, mode) ==
    [success |-> TRUE,
     response |->
         PreVisitGuidance \o Quote \o message \o Quote \o PreVisitClosing
             \o MEDICAL_DISCLAIMER]

\* AIProcessor._fallback_chat_response
_fallback_chat_response(message, mode) ==
    [success |-> TRUE,
     response |->
         IF mode = "pre_visit"
         THEN PreVisitGuidance \o Quote \o message \o Quote \o PreVisitClosing
                  \o MEDICAL_DISCLAIMER
         ELSE PostVisitGuidance \o Quote \o message \o Quote \o PostVisitClosing
                  \o MEDICAL_DISCLAIMER]

(* ---------------- PromptBuilder: where building the prompt raises ---------------- *)

\* get_symptom_summary_prompt calls s.get on every element of symptoms
SymptomPromptRaises(symptoms) == HasNonDict(symptoms, Len(symptoms))

\* chat, lines 205-210: context.get, then get_pre_visit_chat_prompt (s.get on
\* symptoms[:10]) or get_post_visit_chat_prompt (summary.get when summary is truthy)
ChatPromptRaises(mode, context) ==
    \/ context.json # "object"
    \/ mode = "pre_visit" /\ HasNonDict(context.symptoms, FallbackListMax)
    \/ mode # "pre_visit" /\ context.summary = "string"

(* ---------------- CompletionClient: reading a 2xx response ---------------- *)

\* _make_request, lines 90-96: data = response.json(); the envelope is checked for
\* 'choices' and for a first choice only, so a first choice without
\* message/content raises KeyError, which neither except clause catches
ReadEnvelope(env) ==
    CASE env.shape = "no_choices" -> None
      [] env.shape = "empty_choices" -> None
      [] env.shape = "no_message" -> Raise("KeyError")
      [] env.shape = "no_content" -> Raise("KeyError")
      [] env.shape = "ok" -> Text(env.content)

\* mutant of RateLimitWait: a wait that grows by retry_delay each time
RateLimitWaitLinear(attempt) == retry_delay * (attempt + 1)

\* wait_time = retry_delay * (2 ** attempt)
RateLimitWait(attempt) == retry_delay * (2 ^ attempt)

\* `if attempt < max_retries - 1` of both except clauses
MayRetry(attempt) == attempt < max_retries - 1

\* mutant of LoopContinues: the loop runs one iteration too many
LoopContinuesOneMore(attempt) == attempt + 1 < max_retries + 1

\* `for attempt in range(max_retries)`: there is an iteration after this one
LoopContinues(attempt) == attempt + 1 < max_retries

(* ---------------- ResponseAssembler: the four operations ---------------- *)

\* AIProcessor.generate_symptom_summary; v is what _make_request gave back
generate_symptom_summary(avail, symptoms, v) ==
    IF ~avail THEN SymptomFallback(symptoms)
    ELSE IF SymptomPromptRaises(symptoms) \/ v.kind = "raise"
         THEN SymptomFallback(symptoms)
         ELSE IF Truthy(v) THEN Returned([success |-> TRUE, summary |-> v.text])
              ELSE SymptomFallback(symptoms)

\* mutant of DocumentSummary: doctorSummary taken from the reply
DocumentSummaryFromReply(document_text, parsed) ==
    [success |-> TRUE,
     processedText |-> document_text,
     doctorSummary |-> Preview(parsed.patientSummary, DocPreviewLen),
     patientSummary |-> parsed.patientSummary,
     medications |-> parsed.medications,
     followUps |-> parsed.followUps,
     redFlags |-> parsed.redFlags]

\* summarize_document, lines 173-181: the result built from the parsed reply
DocumentSummary(document_text, parsed) ==
    [success |-> TRUE,
     processedText |-> document_text,
     doctorSummary |-> Preview(document_text, DocPreviewLen),
     patientSummary |-> parsed.patientSummary,
     medications |-> parsed.medications,
     followUps |-> parsed.followUps,
     redFlags |-> parsed.redFlags]

\* AIProcessor.summarize_document
summarize_document(avail, document_text, v) ==
    IF ~avail THEN Returned(_fallback_document_summary(document_text))
    ELSE IF v.kind = "raise" THEN Returned(_fallback_document_summary(document_text))
         ELSE IF Truthy(v)
              THEN Returned(DocumentSummary(document_text,
                                            _parse_document_summary(v.text)))
              ELSE Returned(_fallback_document_summary(document_text))

\* AIProcessor.chat
chat(avail, message, mode, context, v) ==
    IF ~avail THEN Returned(_fallback_chat_response(message, mode))
    ELSE IF ChatPromptRaises(mode, context) \/ v.kind = "raise"
         THEN Returned(_fallback_chat_response(message, mode))
         ELSE IF Truthy(v) THEN Returned([success |-> TRUE, response |-> v.text])
              ELSE Returned(_fallback_chat_response(message, mode))

\* mutant of SkipsCleanup: the length test is off by one
SkipsCleanupShorter(avail, raw_text) == ~avail \/ Len(raw_text) < OcrMinLen - 1

\* `if not self.available or len(raw_text) < 50` of cleanup_ocr_text
SkipsCleanup(avail, raw_text) == ~avail \/ Len(raw_text) < OcrMinLen

\* AIProcessor.cleanup_ocr_text
cleanup_ocr_text(avail, raw_text, v) ==
    IF SkipsCleanup(avail, raw_text) THEN Returned(raw_text)
    ELSE IF v.kind = "raise" THEN Returned(raw_text)
         ELSE IF Truthy(v) THEN Returned(v.text) ELSE Returned(raw_text)

\* a direct call of AIProcessor._make_request
make_request(avail, v) ==
    IF ~avail THEN Returned(None)
    ELSE IF v.kind = "raise" THEN Raised(v.text[1]) ELSE Returned(v)

\* mutant of CallsClient: summarize_document without its `if not self.available`,
\* calling a _make_request without its own
CallsClientNoCredentialCheck(o, avail, a) ==
    CASE o = "make_request" -> avail
      [] o = "symptom" -> avail /\ ~SymptomPromptRaises(a.symptoms)
      [] o = "document" -> TRUE
      [] o = "chat" -> avail /\ ~ChatPromptRaises(a.mode, a.context)
      [] o = "ocr" -> ~SkipsCleanup(avail, a.text)
      [] o = "parse" -> FALSE

\* whether the call gets as far as the retry loop of _make_request
CallsClient(o, avail, a) ==
    CASE o = "make_request" -> avail
      [] o = "symptom" -> avail /\ ~SymptomPromptRaises(a.symptoms)
      [] o = "document" -> avail
      [] o = "chat" -> avail /\ ~ChatPromptRaises(a.mode, a.context)
      [] o = "ocr" -> ~SkipsCleanup(avail, a.text)
      [] o = "parse" -> FALSE

\* what the call gives its caller, v being what _make_request gave back
Outcome(o, avail, a, v) ==
    CASE o = "make_request" -> make_request(avail, v)
      [] o = "symptom" -> generate_symptom_summary(avail, a.symptoms, v)
      [] o = "document" -> summarize_document(avail, a.text, v)
      [] o = "chat" -> chat(avail, a.message, a.mode, a.context, v)
      [] o = "ocr" -> cleanup_ocr_text(avail, a.text, v)
      [] o = "parse" -> Returned(_parse_document_summary(a.text))

(* ---------------- inputs ---------------- *)

NoContext == [json |-> "object", symptoms |-> <<>>, summary |-> "absent"]

NoArg == [symptoms |-> <<>>, text |-> <<>>, message |-> <<>>, mode |-> "",
          context |-> NoContext]

SymptomLists ==
    { <<>>, <<SymFull>>, <<SymEmpty, SymFull>>, <<SymString>>,
      Rep(FallbackListMax + MaxExtra, SymFull),
      Rep(FallbackListMax, SymFull) \o Rep(MaxExtra, SymString) }

\* document texts around the two preview lengths
DocumentTexts ==
    { Rep(n, "x") : n \in {1, FallbackPreviewLen, FallbackPreviewLen + 1,
                           DocPreviewLen, DocPreviewLen + 1} }

\* OCR texts around the length under which the remote call is skipped
OcrTexts == { Rep(n, "x") : n \in {0, OcrMinLen - 1, OcrMinLen, OcrMinLen + 1} }

Message ==
    << "W", "h", "a", "t", " ", "s", "h", "o", "u", "l", "d", " ", "I", " ", "a", "s", "k",
       " ", "m", "y", " ", "d", "o", "c", "t", "o", "r", "?" >>

\* a message with quotation marks and a newline in it
MessageQuoted ==
    << "I", "s", " ", "\"", "r", "e", "s", "t", "\"", "\n", "e", "n", "o", "u", "g", "h", "?" >>

Messages == {Message, MessageQuoted}

\* the text DocumentProcessor extracts for process_document: not blank (line 51),
\* around the length under which cleanup_ocr_text skips the remote call
ExtractedTexts == { t \in OcrTexts : Strip(t) # <<>> }

Modes == {"pre_visit", "post_visit"}

Contexts ==
    { NoContext,
      [json |-> "object", symptoms |-> <<SymFull>>, summary |-> "absent"],
      [json |-> "object", symptoms |-> <<SymString>>, summary |-> "absent"],
      [json |-> "object", symptoms |-> <<>>, summary |-> "object"],
      [json |-> "object", symptoms |-> <<>>, summary |-> "string"],
      [json |-> "string", symptoms |-> <<>>, summary |-> "absent"] }

\* the reply of section 8 of the design, with all four labelled sections
ReplyScenario ==
    << "*", "*", "P", "A", "T", "I", "E", "N", "T", "-", "F", "R", "I", "E", "N", "D", "L",
       "Y", " ", "S", "U", "M", "M", "A", "R", "Y", "*", "*", " ", "Y", "o", "u", " ", "h",
       "a", "v", "e", " ", "a", " ", "m", "i", "l", "d", " ", "c", "o", "l", "d", ".", "\n",
       "*", "*", "M", "E", "D", "I", "C", "A", "T", "I", "O", "N", "S", "*", "*", "\n", "-",
       " ", "n", "a", "m", "e", ":", " ", "I", "b", "u", "p", "r", "o", "f", "e", "n", "\n",
       "*", "*", "F", "O", "L", "L", "O", "W", "-", "U", "P", " ", "A", "C", "T", "I", "O",
       "N", "S", "*", "*", "\n", "-", " ", "a", "c", "t", "i", "o", "n", ":", " ", "R", "e",
       "s", "t", " ", "f", "o", "r", " ", "3", " ", "d", "a", "y", "s", "\n", "*", "*", "R",
       "E", "D", " ", "F", "L", "A", "G", "S", "*", "*", "\n", "-", " ", "F", "e", "v", "e",
       "r", " ", "a", "b", "o", "v", "e", " ", "1", "0", "3", "(U+00B0)", "F" >>

ReplyPlain == <<"o", "k">>

\* message.content of a 2xx response
Replies == { <<>>, ReplyPlain, ReplyScenario }

\* the JSON body of a 2xx response
Envelopes ==
    { [shape |-> sh, content |-> <<>>] :
          sh \in {"no_choices", "empty_choices", "no_message", "no_content"} }
    \cup { [shape |-> "ok", content |-> t] : t \in Replies }

(* ---------------- inputs: replies in the format the document prompt asks for ---------------- *)

\* Most items of one section of a reply.
MaxItems == 2

\* the summaries, each with what separates it from its label
ReplySummaries ==
    { [sep |-> <<" ">>,
       text |->
        << "Y", "o", "u", " ", "h", "a", "v", "e", " ", "a", " ", "m", "i", "l", "d", " ", "c",
           "o", "l", "d", "." >>],
      [sep |-> <<":", "\n">>,
       text |->
        << "R", "e", "s", "t", ".", "\n", "D", "r", "i", "n", "k", " ", "w", "a", "t", "e",
           "r", " ", "-", " ", "o", "f", "t", "e", "n", "." >>] }

MedicationNames ==
    <<
    << "I", "b", "u", "p", "r", "o", "f", "e", "n" >>,
    << "C", "o", "-", "c", "o", "d", "a", "m", "o", "l", " ", "3", "0" >>,
    << "V", "i", "t", "a", "m", "i", "n", " ", "D" >> >>

FollowUpActions ==
    <<
    << "R", "e", "s", "t", " ", "f", "o", "r", " ", "3", " ", "d", "a", "y", "s" >>,
    << "B", "l", "o", "o", "d", " ", "t", "e", "s", "t" >>,
    << "S", "e", "e", " ", "D", "r", ".", " ", "L", "e", "e" >> >>

RedFlagTexts ==
    <<
    << "F", "e", "v", "e", "r", " ", "a", "b", "o", "v", "e", " ", "1", "0", "3", "(U+00B0)",
       "F" >>,
    << "C", "h", "e", "s", "t", " ", "p", "a", "i", "n", " ", "-", " ", "c", "a", "l", "l" >>,
    << "R", "a", "s", "h" >> >>

\* the bullet of the i-th red flag: "-" and U+2022 in turn
RedFlagBullet(i) == IF i % 2 = 1 THEN <<"-", " ">> ELSE <<"(U+2022)", " ">>

SectionNames == {"summary", "medications", "followUps", "redFlags"}

\* what a reply is made of: its summary, the number of items of each list, and the
\* section left out, if any
ReplyParts ==
    [summary : ReplySummaries, meds : 0..MaxItems, actions : 0..MaxItems,
     flags : 0..MaxItems, missing : SectionNames \cup {"none"}]

\* `- name: X` followed by the `- dosage:` line the prompt asks for
MedicationLines(n) ==
    [i \in 1..n |->
        <<"-", " ", "n", "a", "m", "e", ":", " ">> \o MedicationNames[i]
        \o <<"\n", "-", " ", "d", "o", "s", "a", "g", "e", ":", " ", "1", "0", "m", "g">>]

FollowUpLines(n) ==
    [i \in 1..n |->
        <<"-", " ", "a", "c", "t", "i", "o", "n", ":", " ">> \o FollowUpActions[i]]

RedFlagLines(n) == [i \in 1..n |-> RedFlagBullet(i) \o RedFlagTexts[i]]

\* a label with its lines under it
ReplySection(label, sep, lines) ==
    IF lines = <<>> THEN label ELSE label \o sep \o Join(lines, <<"\n">>)

\* the sections of the reply p, in the order of the prompt, without the missing one
ReplySections(p) ==
    (IF p.missing = "summary" THEN <<>>
     ELSE <<ReplySection(LblSummary, p.summary.sep, <<p.summary.text>>)>>)
    \o (IF p.missing = "medications" THEN <<>>
        ELSE <<ReplySection(LblMedications, <<"\n">>, MedicationLines(p.meds))>>)
    \o (IF p.missing = "followUps" THEN <<>>
        ELSE <<ReplySection(LblFollowUpActions, <<"\n">>, FollowUpLines(p.actions))>>)
    \o (IF p.missing = "redFlags" THEN <<>>
        ELSE <<ReplySection(LblRedFlags, <<"\n">>, RedFlagLines(p.flags))>>)

\* the text of the reply p
FormatReply(p) == Join(ReplySections(p), <<"\n">>)

FormattedReplies == { FormatReply(p) : p \in ReplyParts }

\* the lengths of free text around the cut of line 277
LongLengths == {SummaryMaxLen - 1, SummaryMaxLen, SummaryMaxLen + MaxExtra}

\* a reply of n characters of free text, without a PATIENT-FRIENDLY SUMMARY label,
\* followed by a RED FLAGS section of `flags` bullets if flags > 0
LongReply(n, flags) ==
    IF flags = 0 THEN Rep(n, "x")
    ELSE Rep(n, "x") \o <<"\n">>
         \o ReplySection(LblRedFlags, <<"\n">>, RedFlagLines(flags))

LongReplies == { LongReply(n, flags) : n \in LongLengths, flags \in 0..1 }

\* the ways a reply may write the header of its follow-up section
FollowUpHeaders == {LblFollowUpActions, LblFollowUpAction, LblFollowUpBare, LblFollowUp}

\* a reply with all four sections, its follow-up section under the header h with
\* n `- action:` lines
HeaderReply(h, n) ==
    Join(<< ReplySection(LblSummary, <<" ">>, <<ReplyPlain>>),
            ReplySection(LblMedications, <<"\n">>, MedicationLines(1)),
            ReplySection(h, <<"\n">>, FollowUpLines(n)),
            ReplySection(LblRedFlags, <<"\n">>, RedFlagLines(1)) >>, <<"\n">>)

HeaderReplies == { HeaderReply(h, n) : h \in FollowUpHeaders, n \in 0..MaxItems }

\* lines of a RED FLAGS section that are no bullets: a sentence, and a sentence
\* with a hyphen in it
PlainLine ==
    << "C", "a", "l", "l", " ", "y", "o", "u", "r", " ", "d", "o", "c", "t", "o", "r", "." >>

PlainLineHyphen ==
    << "S", "e", "e", "k", " ", "h", "e", "l", "p", " ", "-", " ", "n", "o", "w" >>

\* the lines a RED FLAGS section may hold: bullets of either kind and plain lines
RedFlagLineKinds == {RedFlagLines(2)[1], RedFlagLines(2)[2], PlainLine, PlainLineHyphen}

\* the RED FLAGS sections of one to MaxItems lines
RedFlagSpans == UNION { [1..n -> RedFlagLineKinds] : n \in 1..MaxItems }

\* a reply with a summary and the RED FLAGS section of the given lines
RedFlagReply(lines) ==
    Join(<< ReplySection(LblSummary, <<" ">>, <<ReplyPlain>>),
            ReplySection(LblRedFlags, <<"\n">>, lines) >>, <<"\n">>)

RedFlagReplies == { RedFlagReply(lines) : lines \in RedFlagSpans }

\* the replies _parse_document_summary is called on
ParsedReplies == FormattedReplies \cup LongReplies \cup HeaderReplies \cup RedFlagReplies

\* what raise_for_status or the transport raises as a RequestException
RequestErrors == {"connection_error", "http_4xx", "http_5xx"}

(* ---------------- state ---------------- *)

VARIABLES
    pc,         \* where each request is: "absent", "idle", "post", "sleep",
                \* "cleaned" (process_document between its two calls), "done"
    available,  \* AIProcessor.available of the request's processor
    op,         \* the operation called
    arg,        \* its arguments
    attempt,    \* the loop variable of _make_request
    wait,       \* the argument of the pending time.sleep
    log,        \* the requests.post and time.sleep calls of the request's
                \* _make_request invocation (the latest one, if it made two)
    mr,         \* what _make_request gave back
    res,        \* what the operation gave its caller
    calls,      \* how many times the request has invoked _make_request
    cleaned_text \* the local cleaned_text of process_document, <<>> until assigned

vars == <<pc, available, op, arg, attempt, wait, log, mr, res, calls, cleaned_text>>

\* attempt i of requests.post, how it ended and, for a 2xx, message.content
PostEvent(outcome, i, content) ==
    [ev |-> "post", out |-> outcome, n |-> i, body |-> content]

\* time.sleep(secs)
SleepEvent(secs) == [ev |-> "sleep", out |-> "", n |-> secs, body |-> <<>>]

\* the state after AIProcessor() of each request in `active`
InitWith(active) ==
    /\ pc = [r \in Reqs |-> IF r \in active THEN "idle" ELSE "absent"]
    /\ available \in [Reqs -> BOOLEAN]
    /\ \A r \in Reqs \ active : available[r] = FALSE
    /\ op = [r \in Reqs |-> ""]
    /\ arg = [r \in Reqs |-> NoArg]
    /\ attempt = [r \in Reqs |-> 0]
    /\ wait = [r \in Reqs |-> 0]
    /\ log = [r \in Reqs |-> <<>>]
    /\ mr = [r \in Reqs |-> NotCalled]
    /\ res = [r \in Reqs |-> Pending]
    /\ calls = [r \in Reqs |-> 0]
    /\ cleaned_text = [r \in Reqs |-> <<>>]

Init == InitWith({1})

\* _make_request gives v back and the operation runs to its return; in
\* process_document the first operation, cleanup_ocr_text, returns to the handler
Finish(r, v) ==
    /\ mr' = [mr EXCEPT ![r] = v]
    /\ IF op[r] = "process_document" /\ cleaned_text[r] = <<>>
       THEN /\ pc' = [pc EXCEPT ![r] = "cleaned"]
            /\ UNCHANGED res
       ELSE /\ pc' = [pc EXCEPT ![r] = "done"]
            /\ res' = [res EXCEPT ![r] =
                           IF op[r] = "process_document"
                           THEN summarize_document(available[r], cleaned_text[r], v)
                           ELSE Outcome(op[r], available[r], arg[r], v)]
    /\ UNCHANGED cleaned_text

\* the call of operation o with arguments a, up to the first requests.post
Begin(r, o, a) ==
    /\ pc[r] = "idle"
    /\ op' = [op EXCEPT ![r] = o]
    /\ arg' = [arg EXCEPT ![r] = a]
    /\ IF CallsClient(o, available[r], a)
       THEN /\ pc' = [pc EXCEPT ![r] = "post"]
            /\ UNCHANGED <<mr, res>>
       ELSE /\ pc' = [pc EXCEPT ![r] = "done"]
            /\ mr' = [mr EXCEPT ![r] =
                         IF o = "make_request" THEN None ELSE NotCalled]
            /\ res' = [res EXCEPT ![r] = Outcome(o, available[r], a, NotCalled)]
    /\ calls' = [calls EXCEPT ![r] =
                    IF o = "make_request" \/ CallsClient(o, available[r], a)
                    THEN @ + 1 ELSE @]
    /\ UNCHANGED <<available, attempt, wait, log, cleaned_text>>

CallMakeRequest(r) == Begin(r, "make_request", NoArg)

GenerateSymptomSummary(r) ==
    \E symptoms \in SymptomLists :
        Begin(r, "symptom", [NoArg EXCEPT !.symptoms = symptoms])

SummarizeDocument(r) ==
    \E document_text \in DocumentTexts :
        Begin(r, "document", [NoArg EXCEPT !.text = document_text])

Chat(r) ==
    \E message \in Messages, mode \in Modes, context \in Contexts :
        Begin(r, "chat", [NoArg EXCEPT !.message = message, !.mode = mode,
                                       !.context = context])

CleanupOcrText(r) ==
    \E raw_text \in OcrTexts :
        Begin(r, "ocr", [NoArg EXCEPT !.text = raw_text])

\* AIProcessor._parse_document_summary on a reply, as summarize_document calls it
ParseDocumentSummary(r) ==
    \E content \in ParsedReplies :
        Begin(r, "parse", [NoArg EXCEPT !.text = content])

\* POST /process/document, lines 62-66: AIProcessor(), then
\* cleanup_ocr_text(extracted_text) up to its first requests.post
ProcessDocument(r) ==
    \E extracted_text \in ExtractedTexts :
        /\ pc[r] = "idle"
        /\ op' = [op EXCEPT ![r] = "process_document"]
        /\ arg' = [arg EXCEPT ![r] = [NoArg EXCEPT !.text = extracted_text]]
        /\ IF SkipsCleanup(available[r], extracted_text)
           THEN /\ pc' = [pc EXCEPT ![r] = "cleaned"]
                /\ UNCHANGED calls
           ELSE /\ pc' = [pc EXCEPT ![r] = "post"]
                /\ calls' = [calls EXCEPT ![r] = @ + 1]
        /\ UNCHANGED <<available, attempt, wait, log, mr, res, cleaned_text>>

\* mutant of ProcessDocumentSummarize: the handler runs cleanup_ocr_text once more
ProcessDocumentCleansAgain(r) ==
    /\ pc[r] = "cleaned"
    /\ pc' = [pc EXCEPT ![r] = "post"]
    /\ attempt' = [attempt EXCEPT ![r] = 0]
    /\ log' = [log EXCEPT ![r] = <<>>]
    /\ calls' = [calls EXCEPT ![r] = @ + 1]
    /\ UNCHANGED <<available, op, arg, wait, mr, res, cleaned_text>>

\* POST /process/document, lines 66-79: cleanup_ocr_text has returned cleaned_text;
\* summarize_document(cleaned_text) up to its first requests.post, on the same
\* AIProcessor
ProcessDocumentSummarize(r) ==
    /\ pc[r] = "cleaned"
    /\ cleaned_text' = [cleaned_text EXCEPT ![r] =
                           cleanup_ocr_text(available[r], arg[r].text, mr[r]).value]
    /\ IF available[r]
       THEN /\ pc' = [pc EXCEPT ![r] = "post"]
            /\ attempt' = [attempt EXCEPT ![r] = 0]
            /\ log' = [log EXCEPT ![r] = <<>>]
            /\ calls' = [calls EXCEPT ![r] = @ + 1]
            /\ UNCHANGED res
       ELSE /\ pc' = [pc EXCEPT ![r] = "done"]
            /\ res' = [res EXCEPT ![r] =
                           summarize_document(FALSE, cleaned_text'[r], NotCalled)]
            /\ UNCHANGED <<attempt, log, calls>>
    /\ UNCHANGED <<available, op, arg, wait, mr>>

\* requests.post answered 429: lines 82-87
PostRateLimited(r) ==
    /\ pc[r] = "post"
    /\ log' = [log EXCEPT ![r] = Append(@, PostEvent("429", attempt[r], <<>>))]
    /\ wait' = [wait EXCEPT ![r] = RateLimitWait(attempt[r])]
    /\ pc' = [pc EXCEPT ![r] = "sleep"]
    /\ UNCHANGED <<available, op, arg, attempt, mr, res, calls, cleaned_text>>

\* mutant of Failed: an HTTP 4xx status is not retried
FailedNoRetryOn4xx(r, outcome) ==
    /\ pc[r] = "post"
    /\ log' = [log EXCEPT ![r] = Append(@, PostEvent(outcome, attempt[r], <<>>))]
    /\ IF MayRetry(attempt[r]) /\ outcome # "http_4xx"
       THEN /\ wait' = [wait EXCEPT ![r] = retry_delay]
            /\ pc' = [pc EXCEPT ![r] = "sleep"]
            /\ UNCHANGED <<mr, res, cleaned_text>>
       ELSE /\ Finish(r, None)
            /\ UNCHANGED wait
    /\ UNCHANGED <<available, op, arg, attempt, calls>>

\* an except clause of the loop: sleep and go on, or return None
Failed(r, outcome) ==
    /\ pc[r] = "post"
    /\ log' = [log EXCEPT ![r] = Append(@, PostEvent(outcome, attempt[r], <<>>))]
    /\ IF MayRetry(attempt[r])
       THEN /\ wait' = [wait EXCEPT ![r] = retry_delay]
            /\ pc' = [pc EXCEPT ![r] = "sleep"]
            /\ UNCHANGED <<mr, res, cleaned_text>>
       ELSE /\ Finish(r, None)
            /\ UNCHANGED wait
    /\ UNCHANGED <<available, op, arg, attempt, calls>>

\* requests.post raised Timeout: lines 98-103
PostTimeout(r) == Failed(r, "timeout")

\* requests.post or raise_for_status raised another RequestException: lines 104-109
PostRequestError(r) == \E e \in RequestErrors : Failed(r, e)

\* requests.post answered 2xx with the JSON body env: lines 89-96
PostAnswered(r, env) ==
    /\ pc[r] = "post"
    /\ log' = [log EXCEPT ![r] = Append(@, PostEvent(env.shape, attempt[r], env.content))]
    /\ Finish(r, ReadEnvelope(env))
    /\ UNCHANGED <<available, op, arg, attempt, wait, calls>>

PostSuccess(r) == \E env \in Envelopes : PostAnswered(r, env)

\* mutant of Sleep: the retry after a 429 does not use up an iteration
SleepRateLimitFree(r) ==
    /\ pc[r] = "sleep"
    /\ log' = [log EXCEPT ![r] = Append(@, SleepEvent(wait[r]))]
    /\ IF log[r][Len(log[r])].out = "429"
       THEN /\ pc' = [pc EXCEPT ![r] = "post"]
            /\ UNCHANGED <<attempt, mr, res, cleaned_text>>
       ELSE /\ attempt' = [attempt EXCEPT ![r] = @ + 1]
            /\ IF LoopContinues(attempt[r])
               THEN /\ pc' = [pc EXCEPT ![r] = "post"]
                    /\ UNCHANGED <<mr, res, cleaned_text>>
               ELSE Finish(r, None)
    /\ UNCHANGED <<available, op, arg, wait, calls>>

\* mutant of Sleep: the loop variable is kept in one place for all requests
SleepSharedAttempt(r) ==
    /\ pc[r] = "sleep"
    /\ log' = [log EXCEPT ![r] = Append(@, SleepEvent(wait[r]))]
    /\ attempt' = [q \in Reqs |-> attempt[q] + 1]
    /\ IF LoopContinues(attempt[r])
       THEN /\ pc' = [pc EXCEPT ![r] = "post"]
            /\ UNCHANGED <<mr, res, cleaned_text>>
       ELSE Finish(r, None)
    /\ UNCHANGED <<available, op, arg, wait, calls>>

\* time.sleep, then `continue`: the next attempt, or the end of the loop (line 111)
Sleep(r) ==
    /\ pc[r] = "sleep"
    /\ log' = [log EXCEPT ![r] = Append(@, SleepEvent(wait[r]))]
    /\ attempt' = [attempt EXCEPT ![r] = @ + 1]
    /\ IF LoopContinues(attempt[r])
       THEN /\ pc' = [pc EXCEPT ![r] = "post"]
            /\ UNCHANGED <<mr, res, cleaned_text>>
       ELSE Finish(r, None)
    /\ UNCHANGED <<available, op, arg, wait, calls>>

Next ==
    \E r \in Reqs :
        \/ CallMakeRequest(r)
        \/ GenerateSymptomSummary(r)
        \/ SummarizeDocument(r)
        \/ Chat(r)
        \/ CleanupOcrText(r)
        \/ ParseDocumentSummary(r)
        \/ ProcessDocument(r)
        \/ ProcessDocumentSummarize(r)
        \/ PostRateLimited(r)
        \/ PostTimeout(r)
        \/ PostRequestError(r)
        \/ PostSuccess(r)
        \/ Sleep(r)

Spec == Init /\ [][Next]_vars

(* ---------------- concurrent requests ---------------- *)

\* every request slot holds a request, each with its own AIProcessor()
ConcurrentInit == InitWith(Reqs)

\* POST /chat with a body that has no context
ChatNoContext(r) ==
    Begin(r, "chat", [NoArg EXCEPT !.message = Message, !.mode = "pre_visit"])

\* requests.post answered 2xx with a well-formed body
PostPlain(r) == PostAnswered(r, [shape |-> "ok", content |-> ReplyPlain])

\* the steps of the requests, interleaved in every order
ConcurrentNext ==
    \E r \in Reqs :
        \/ CallMakeRequest(r)
        \/ ChatNoContext(r)
        \/ PostRateLimited(r)
        \/ PostTimeout(r)
        \/ PostPlain(r)
        \/ Sleep(r)

ConcurrentSpec == ConcurrentInit /\ [][ConcurrentNext]_vars

(* ---------------- what a run shows ---------------- *)

\* the requests.post calls of request r, in order
Posts(r) == SelectSeq(log[r], LAMBDA e : e.ev = "post")

\* how they ended
PostOutcomes(r) == [i \in 1..Len(Posts(r)) |-> Posts(r)[i].out]

\* the time.sleep calls of request r, in order
Sleeps(r) == SelectSeq(log[r], LAMBDA e : e.ev = "sleep")

\* the outcomes handled by the two except clauses
HardFailures == {"timeout"} \cup RequestErrors

HardFailureCount(r) ==
    Cardinality({i \in 1..Len(Posts(r)) : Posts(r)[i].out \in HardFailures})

RateLimitCount(r) ==
    Cardinality({i \in 1..Len(Posts(r)) : Posts(r)[i].out = "429"})

Done(r) == pc[r] = "done"

\* _make_request has returned to the operation that called it
ClientReturned(r) == pc[r] \in {"done", "cleaned"}

(* ---------------- C1 ---------------- *)

\* C1: one call of _make_request issues at most max_retries = 3 HTTP POSTs, whatever
\* the remote answers; after 429s followed by a success the call has ended at that
\* first success and gives back its text; after 3 timeouts in a row it has ended
\* with None (there is no 4th attempt).
C1_AtMostThreeAttempts ==
    \A r \in Reqs :
        /\ Len(Posts(r)) <= max_retries
        /\ \A k \in 0..(max_retries - 1) :
               PostOutcomes(r) = Rep(k, "429") \o <<"ok">>
                   => ClientReturned(r) /\ mr[r] = Text(Posts(r)[k + 1].body)
        /\ PostOutcomes(r) = Rep(max_retries, "timeout")
               => ClientReturned(r) /\ mr[r] = None

\* two 429 answers, then a success on the third and last attempt
C1_Witness ==
    \E r \in Reqs :
        /\ PostOutcomes(r) = <<"429", "429", "ok">>
        /\ Done(r)
        /\ mr[r] = Text(ReplyPlain)

(* ---------------- C2 ---------------- *)

\* C2 as claimed: a 429 does not use up the attempt budget, so the attempts left
\* before a POST are max_retries less the hard failures (timeouts, transport
\* errors, other HTTP errors) so far.
C2_RateLimitKeepsBudget ==
    \A r \in Reqs :
        pc[r] = "post" => max_retries - attempt[r] = max_retries - HardFailureCount(r)

\* C2 as amended: a 429 uses up one attempt of the one budget of 3 exactly as a
\* hard failure does, so the attempts left before a POST are max_retries less
\* the 429s and the hard failures so far.
C2_RateLimitConsumesAttempt ==
    \A r \in Reqs :
        pc[r] = "post" =>
            /\ attempt[r] < max_retries
            /\ max_retries - attempt[r]
                   = max_retries - (HardFailureCount(r) + RateLimitCount(r))

\* before the third POST, after one 429 and one hard failure
C2_Witness ==
    \E r \in Reqs :
        pc[r] = "post" /\ RateLimitCount(r) = 1 /\ HardFailureCount(r) = 1

(* ---------------- C3 ---------------- *)

\* C3: without a credential (available = FALSE) no requests.post and no time.sleep
\* is ever made; _make_request gives None, and generate_symptom_summary (on a list
\* whose first FallbackListMax elements are records), summarize_document, chat
\* and cleanup_ocr_text give their fallback result.
C3_NoCredentialNoHttp ==
    \A r \in Reqs :
        ~available[r] =>
            /\ log[r] = <<>>
            /\ pc[r] \notin {"post", "sleep"}
            /\ Done(r) =>
                /\ op[r] = "make_request" =>
                       mr[r] = None /\ res[r] = Returned(None)
                /\ op[r] = "symptom" /\ ~HasNonDict(arg[r].symptoms, FallbackListMax) =>
                       res[r] = Returned(_fallback_symptom_summary(arg[r].symptoms))
                /\ op[r] = "document" =>
                       res[r] = Returned(_fallback_document_summary(arg[r].text))
                /\ op[r] = "chat" =>
                       res[r] = Returned(_fallback_chat_response(arg[r].message,
                                                                 arg[r].mode))
                /\ op[r] = "ocr" => res[r] = Returned(arg[r].text)

\* summarize_document has returned on a processor without a credential
C3_Witness ==
    \E r \in Reqs :
        /\ ~available[r]
        /\ Done(r)
        /\ op[r] = "document"
        /\ res[r].status = "returned"

(* ---------------- C4 ---------------- *)

\* C4: _make_request never raises; a 2xx response whose envelope has an unexpected
\* shape makes it give None.
C4_MakeRequestNeverRaises ==
    \A r \in Reqs :
        /\ mr[r].kind # "raise"
        /\ Done(r) /\ Len(Posts(r)) > 0
               /\ Posts(r)[Len(Posts(r))].out
                      \in {"no_choices", "empty_choices", "no_message", "no_content"}
               => mr[r] = None

(* ---------------- C5 ---------------- *)

Operations == {"symptom", "document", "chat", "ocr"}

\* C5: none of generate_symptom_summary, summarize_document, chat and
\* cleanup_ocr_text lets an exception reach its caller.
C5_NoOperationRaises ==
    \A r \in Reqs :
        op[r] \in Operations => res[r].status # "raised"

(* ---------------- C6 ---------------- *)

\* C6: every result that generate_symptom_summary, summarize_document or chat
\* returns has success = TRUE, on every path.
C6_SuccessAlwaysTrue ==
    \A r \in Reqs :
        Done(r) /\ op[r] \in {"symptom", "document", "chat"}
                /\ res[r].status = "returned"
            => res[r].value.success = TRUE

\* summarize_document has returned after _make_request raised
C6_Witness ==
    \E r \in Reqs :
        /\ Done(r)
        /\ op[r] = "document"
        /\ mr[r].kind = "raise"
        /\ res[r].status = "returned"
        /\ res[r].value.success = TRUE

(* ---------------- C7 ---------------- *)

\* a symptom list as the data model has it: every element is a record
IsSymptomList(symptoms) == ~HasNonDict(symptoms, Len(symptoms))

\* C7 as claimed: for every list of symptom records and every client outcome,
\* generate_symptom_summary returns success = TRUE and a non-empty summary that
\* contains MEDICAL_DISCLAIMER.
C7_SummaryHasDisclaimer ==
    \A r \in Reqs :
        Done(r) /\ op[r] = "symptom" /\ IsSymptomList(arg[r].symptoms) =>
            /\ res[r].status = "returned"
            /\ res[r].value.success = TRUE
            /\ res[r].value.summary # <<>>
            /\ Contains(res[r].value.summary, MEDICAL_DISCLAIMER)

\* C7 as amended: for every list of symptom records and every client outcome,
\* generate_symptom_summary returns success = TRUE and a non-empty summary; the
\* summary contains MEDICAL_DISCLAIMER whenever the client gave no non-empty text
\* (the fallback), and is the client's text as it is otherwise.
C7_SummaryNonEmpty ==
    \A r \in Reqs :
        Done(r) /\ op[r] = "symptom" /\ IsSymptomList(arg[r].symptoms) =>
            /\ res[r].status = "returned"
            /\ res[r].value.success = TRUE
            /\ res[r].value.summary # <<>>
            /\ IF mr[r].kind = "text" /\ mr[r].text # <<>>
               THEN res[r].value.summary = mr[r].text
               ELSE Contains(res[r].value.summary, MEDICAL_DISCLAIMER)

\* the empty symptom list, summarized by the fallback after three failed attempts
C7_Witness ==
    \E r \in Reqs :
        /\ Done(r)
        /\ op[r] = "symptom"
        /\ arg[r].symptoms = <<>>
        /\ Len(Posts(r)) = max_retries
        /\ mr[r] = None
        /\ Contains(res[r].value.summary, MEDICAL_DISCLAIMER)

(* ---------------- C8 ---------------- *)

IsStr(x) == x \in Seq(STRING)

IsMedication(m) ==
    /\ DOMAIN m = {"name", "dosage", "timing", "notes"}
    /\ IsStr(m.name) /\ IsStr(m.dosage) /\ IsStr(m.timing) /\ IsStr(m.notes)

IsFollowUp(f) ==
    /\ DOMAIN f = {"action", "timing"}
    /\ IsStr(f.action) /\ IsStr(f.timing)

DocumentKeys ==
    {"success", "processedText", "doctorSummary", "patientSummary",
     "medications", "followUps", "redFlags"}

\* a DocumentSummaryResult: every key present, every value of its type
IsDocumentSummary(d) ==
    /\ DOMAIN d = DocumentKeys
    /\ d.success \in BOOLEAN
    /\ IsStr(d.processedText) /\ IsStr(d.doctorSummary) /\ IsStr(d.patientSummary)
    /\ DOMAIN d.medications = 1..Len(d.medications)
    /\ \A i \in DOMAIN d.medications : IsMedication(d.medications[i])
    /\ DOMAIN d.followUps = 1..Len(d.followUps)
    /\ \A i \in DOMAIN d.followUps : IsFollowUp(d.followUps[i])
    /\ DOMAIN d.redFlags = 1..Len(d.redFlags)
    /\ \A i \in DOMAIN d.redFlags : IsStr(d.redFlags[i])

\* C8: for every document text and every client outcome summarize_document
\* returns a result with all of success, processedText, doctorSummary,
\* patientSummary, medications, followUps and redFlags, each of its type, on the
\* fallback path as on the success path.
C8_DocumentResultShape ==
    \A r \in Reqs :
        Done(r) /\ op[r] = "document" =>
            /\ res[r].status = "returned"
            /\ IsDocumentSummary(res[r].value)
            /\ res[r].value.processedText = arg[r].text

\* the fallback result after three failed attempts
C8_Witness ==
    \E r \in Reqs :
        /\ Done(r)
        /\ op[r] = "document"
        /\ Len(Posts(r)) = max_retries
        /\ mr[r] = None
        /\ res[r].value = _fallback_document_summary(arg[r].text)

(* ---------------- C9 ---------------- *)

\* the summary of generate_symptom_summary, the response of chat
ResultText(r) ==
    IF op[r] = "symptom" THEN res[r].value.summary ELSE res[r].value.response

FallbackText(r) ==
    IF op[r] = "symptom" THEN _fallback_symptom_summary(arg[r].symptoms).summary
    ELSE _fallback_chat_response(arg[r].message, arg[r].mode).response

\* C9 as claimed: the summary/response is the client's text when the client gave
\* one, and the fallback text otherwise; None is never surfaced as an error.
C9_ClientTextOrFallback ==
    \A r \in Reqs :
        Done(r) /\ op[r] \in {"symptom", "chat"} =>
            /\ mr[r].kind = "none" => res[r].status = "returned"
            /\ res[r].status = "returned" =>
                   IF mr[r].kind = "text"
                   THEN ResultText(r) = mr[r].text
                   ELSE ResultText(r) = FallbackText(r)

\* C9 as amended: the summary/response is the client's text when the client gave
\* a non-empty text, and the fallback text otherwise (None, an empty text, an
\* exception); None is never surfaced as an error.
C9_NonEmptyClientTextOrFallback ==
    \A r \in Reqs :
        Done(r) /\ op[r] \in {"symptom", "chat"} =>
            /\ mr[r].kind = "none" => res[r].status = "returned"
            /\ res[r].status = "returned" =>
                   IF mr[r].kind = "text" /\ mr[r].text # <<>>
                   THEN ResultText(r) = mr[r].text
                   ELSE ResultText(r) = FallbackText(r)

\* chat has returned the fallback for an empty text of the client
C9_Witness ==
    \E r \in Reqs :
        /\ Done(r)
        /\ op[r] = "chat"
        /\ mr[r] = Text(<<>>)
        /\ res[r] = Returned(_fallback_chat_response(arg[r].message, arg[r].mode))

(* ---------------- C10 ---------------- *)

\* C10: cleanup_ocr_text returns a text shorter than OcrMinLen = 50 characters as
\* it is, without any requests.post; a text of 50 characters or more it returns
\* as it is whenever _make_request gives None or raises.
C10_ShortOrFailedIsIdentity ==
    \A r \in Reqs :
        op[r] = "ocr" =>
            /\ Len(arg[r].text) < OcrMinLen =>
                   /\ log[r] = <<>>
                   /\ pc[r] \notin {"post", "sleep"}
                   /\ Done(r) => res[r] = Returned(arg[r].text)
            /\ Len(arg[r].text) >= OcrMinLen /\ Done(r)
                   /\ mr[r].kind \in {"none", "raise"}
                   => res[r] = Returned(arg[r].text)

\* a text of 49 characters, returned by a processor that has a credential
C10_Witness ==
    \E r \in Reqs :
        /\ Done(r)
        /\ op[r] = "ocr"
        /\ available[r]
        /\ Len(arg[r].text) = OcrMinLen - 1
        /\ res[r] = Returned(arg[r].text)

(* ---------------- C11 ---------------- *)

\* the first n medications of a reply, as the claim says they are returned
ExpectedMedications(n) ==
    [i \in 1..n |->
        [name |-> MedicationNames[i],
         dosage |-> <<"As prescribed">>,
         timing |-> <<"Follow doctor instructions">>,
         notes |-> <<>>]]

ExpectedFollowUps(n) ==
    [i \in 1..n |-> [action |-> FollowUpActions[i], timing |-> <<"As scheduled">>]]

ExpectedRedFlags(n) == [i \in 1..n |-> RedFlagTexts[i]]

\* C11: for a reply with all four labelled sections in the order of the prompt,
\* _parse_document_summary returns the trimmed summary, one Medication per
\* `- name:` line with the fixed dosage, timing and notes, one FollowUp per
\* `- action:` line with the fixed timing, and one red flag per bullet, each list in
\* source order and with no item of another section.
C11_CompleteReplyRoundTrip ==
    \A r \in Reqs :
        Done(r) /\ op[r] = "parse" =>
            \A p \in ReplyParts :
                p.missing = "none" /\ arg[r].text = FormatReply(p) =>
                    res[r] = Returned([patientSummary |-> p.summary.text,
                                       medications |-> ExpectedMedications(p.meds),
                                       followUps |-> ExpectedFollowUps(p.actions),
                                       redFlags |-> ExpectedRedFlags(p.flags)])

\* a reply with two items in each list has been parsed
C11_Witness ==
    \E r \in Reqs :
        /\ Done(r)
        /\ op[r] = "parse"
        /\ \E p \in ReplyParts :
               /\ p.missing = "none" /\ p.meds = 2 /\ p.actions = 2 /\ p.flags = 2
               /\ arg[r].text = FormatReply(p)
        /\ Len(res[r].value.medications) = 2
        /\ Len(res[r].value.followUps) = 2
        /\ Len(res[r].value.redFlags) = 2

(* ---------------- C12 ---------------- *)

\* the lists of the reply p as they are expected, [] for a section left out
ExpectedLists(p) ==
    [medications |->
         IF p.missing = "medications" THEN <<>> ELSE ExpectedMedications(p.meds),
     followUps |->
         IF p.missing = "followUps" THEN <<>> ELSE ExpectedFollowUps(p.actions),
     redFlags |->
         IF p.missing = "redFlags" THEN <<>> ELSE ExpectedRedFlags(p.flags)]

\* C12 as claimed: when one section of the reply is missing, that field alone takes
\* its zero value ('' for the summary, [] for a list), and the other fields are
\* extracted as if the section were there.
C12_MissingSectionZeroValue ==
    \A r \in Reqs :
        Done(r) /\ op[r] = "parse" =>
            \A p \in ReplyParts :
                p.missing # "none" /\ arg[r].text = FormatReply(p) =>
                    /\ res[r].value.patientSummary =
                           IF p.missing = "summary" THEN <<>> ELSE p.summary.text
                    /\ res[r].value.medications = ExpectedLists(p).medications
                    /\ res[r].value.followUps = ExpectedLists(p).followUps
                    /\ res[r].value.redFlags = ExpectedLists(p).redFlags

\* C12 as amended: when the MEDICATIONS, FOLLOW-UP ACTIONS or RED FLAGS section is
\* missing, its list is [] ; when the PATIENT-FRIENDLY SUMMARY section is missing,
\* patientSummary is the first SummaryMaxLen = 1500 characters of the whole reply;
\* in each case the other fields are extracted as if the section were there.
C12_MissingSectionDefault ==
    \A r \in Reqs :
        Done(r) /\ op[r] = "parse" =>
            \A p \in ReplyParts :
                p.missing # "none" /\ arg[r].text = FormatReply(p) =>
                    /\ res[r].value.patientSummary =
                           IF p.missing = "summary"
                           THEN Prefix(arg[r].text, SummaryMaxLen)
                           ELSE p.summary.text
                    /\ res[r].value.medications = ExpectedLists(p).medications
                    /\ res[r].value.followUps = ExpectedLists(p).followUps
                    /\ res[r].value.redFlags = ExpectedLists(p).redFlags

\* a reply without its MEDICATIONS section, with the other lists filled, parsed
C12_Witness ==
    \E r \in Reqs :
        /\ Done(r)
        /\ op[r] = "parse"
        /\ \E p \in ReplyParts :
               /\ p.missing = "medications" /\ p.actions = 2 /\ p.flags = 2
               /\ arg[r].text = FormatReply(p)
        /\ res[r].value.medications = <<>>
        /\ Len(res[r].value.followUps) = 2
        /\ Len(res[r].value.redFlags) = 2

(* ---------------- C13 ---------------- *)

\* the operation of request r has returned the result of its fallback
ReturnedFallback(r) ==
    /\ Done(r)
    /\ op[r] \in {"symptom", "document", "chat"}
    /\ res[r].status = "returned"
    /\ ~(mr[r].kind = "text" /\ mr[r].text # <<>>)

\* the text of a result that is written for the patient
PatientText(r) ==
    CASE op[r] = "symptom" -> res[r].value.summary
      [] op[r] = "document" -> res[r].value.patientSummary
      [] op[r] = "chat" -> res[r].value.response

\* C13: every result of _fallback_symptom_summary, _fallback_document_summary and
\* _fallback_chat_response has success = TRUE and holds the MEDICAL_DISCLAIMER text
\* as it is.
C13_FallbackHasDisclaimer ==
    \A r \in Reqs :
        ReturnedFallback(r) =>
            /\ res[r].value.success = TRUE
            /\ Contains(PatientText(r), MEDICAL_DISCLAIMER)

\* the fallback of chat in post-visit mode after three failed attempts
C13_Witness ==
    \E r \in Reqs :
        /\ ReturnedFallback(r)
        /\ op[r] = "chat"
        /\ arg[r].mode = "post_visit"
        /\ Len(Posts(r)) = max_retries
        /\ Contains(res[r].value.response, MEDICAL_DISCLAIMER)

(* ---------------- C14 ---------------- *)

\* C14: with no credential, chat returns success = TRUE and a response that holds
\* the message as it is between quotation marks, after the numbered guidance of the
\* mode: the pre-visit tips for pre_visit, the visit-notes guidance for post_visit.
C14_ChatFallbackEchoesMessage ==
    \A r \in Reqs :
        Done(r) /\ op[r] = "chat" /\ ~available[r] =>
            /\ res[r].status = "returned"
            /\ res[r].value.success = TRUE
            /\ Contains(res[r].value.response,
                        <<"\"">> \o arg[r].message \o <<"\"">>)
            /\ Contains(res[r].value.response,
                        IF arg[r].mode = "pre_visit"
                        THEN PreVisitGuidance \o <<"\"">> \o arg[r].message
                        ELSE PostVisitGuidance \o <<"\"">> \o arg[r].message)

\* a post-visit chat without a credential, the message itself holding quotation marks
C14_Witness ==
    \E r \in Reqs :
        /\ Done(r)
        /\ op[r] = "chat"
        /\ ~available[r]
        /\ arg[r].mode = "post_visit"
        /\ arg[r].message = MessageQuoted
        /\ Contains(res[r].value.response, PostVisitGuidance)

(* ---------------- C15 ---------------- *)

\* the first 500 characters and '...' of a longer text, a text of up to 500 as it is
Preview500(text) ==
    IF Len(text) > 500 THEN SubSeq(text, 1, 500) \o <<".", ".", ".">> ELSE text

\* the result of _fallback_document_summary has been returned
ReturnedDocumentFallback(r) == ReturnedFallback(r) /\ op[r] = "document"

\* C15 as claimed: the document fallback returns the preview as doctorSummary and
\* as patientSummary, with no medications, one fixed follow-up and one fixed red
\* flag.
C15_PreviewIsBothSummaries ==
    \A r \in Reqs :
        ReturnedDocumentFallback(r) =>
            /\ res[r].value.doctorSummary = Preview500(arg[r].text)
            /\ res[r].value.patientSummary = Preview500(arg[r].text)
            /\ res[r].value.medications = <<>>
            /\ Len(res[r].value.followUps) = 1
            /\ Len(res[r].value.redFlags) = 1

\* C15 as amended: the document fallback returns the preview as doctorSummary, and
\* as patientSummary the preview between a fixed opening line and a fixed closing
\* line followed by MEDICAL_DISCLAIMER, with no medications, one fixed follow-up and
\* one fixed red flag.
C15_PreviewInPatientSummary ==
    \A r \in Reqs :
        ReturnedDocumentFallback(r) =>
            /\ res[r].value.doctorSummary = Preview500(arg[r].text)
            /\ res[r].value.patientSummary =
                   <<"Your document has been processed. Here's a preview:\n\n">>
                   \o Preview500(arg[r].text)
                   \o <<"\n\nFor a detailed explanation of this document, please consult with your healthcare provider.\n\n">>
                   \o MEDICAL_DISCLAIMER
            /\ res[r].value.medications = <<>>
            /\ res[r].value.followUps =
                   << [action |-> <<"Discuss this document with your healthcare provider">>,
                       timing |-> <<"At your next appointment">>] >>
            /\ res[r].value.redFlags =
                   << <<"Contact your doctor if you have questions about this document">> >>

\* the fallback for a document of 501 characters
C15_Witness ==
    \E r \in Reqs :
        /\ ReturnedDocumentFallback(r)
        /\ Len(arg[r].text) = 501
        /\ Len(res[r].value.doctorSummary) = 503

(* ---------------- C16 ---------------- *)

\* C16 as claimed: one inbound request makes at most one _make_request invocation,
\* on every route, POST /process/document included.
C16_OneCallPerRequest ==
    \A r \in Reqs : calls[r] <= 1

\* C16 as amended: a request that runs one AIProcessor operation makes at most one
\* _make_request invocation; POST /process/document runs cleanup_ocr_text and then
\* summarize_document and makes at most two, the second one only after the first
\* has returned; a result is there only when no invocation is in progress.
C16_OneCallPerOperation ==
    \A r \in Reqs :
        /\ op[r] # "process_document" => calls[r] <= 1
        /\ op[r] = "process_document" =>
               /\ calls[r] <= 2
               /\ calls[r] = 2 => cleaned_text[r] # <<>>
               /\ cleaned_text[r] = <<>> => calls[r] <= 1
        /\ res[r].status # "pending" => Done(r)

\* process_document has returned after two _make_request invocations
C16_Witness ==
    \E r \in Reqs :
        /\ Done(r)
        /\ op[r] = "process_document"
        /\ calls[r] = 2
        /\ res[r].status = "returned"

(* ---------------- C17 ---------------- *)

RECURSIVE AloneFrom(_, _, _)

\* _make_request run by itself against the answers `posts` (requests.post events),
\* from the i-th answer on, `a` being the loop variable: lines 73-111
AloneFrom(posts, i, a) ==
    IF a >= max_retries
    THEN [over |-> TRUE, attempts |-> i - 1, attempt |-> a, value |-> None]
    ELSE IF i > Len(posts)
    THEN [over |-> FALSE, attempts |-> i - 1, attempt |-> a, value |-> NotCalled]
    ELSE IF posts[i].out = "429"
    THEN AloneFrom(posts, i + 1, a + 1)
    ELSE IF posts[i].out \in HardFailures
    THEN IF a < max_retries - 1
         THEN AloneFrom(posts, i + 1, a + 1)
         ELSE [over |-> TRUE, attempts |-> i, attempt |-> a, value |-> None]
    ELSE [over |-> TRUE, attempts |-> i, attempt |-> a,
          value |-> ReadEnvelope([shape |-> posts[i].out, content |-> posts[i].body])]

\* request r against its own answers, with no other request running
Alone(r) == AloneFrom(Posts(r), 1, 0)

\* C17: under every interleaving of the requests, each with its own AIProcessor,
\* the loop variable, the number of attempts and the result of every request are
\* those of the request run alone against the same answers.
C17_RequestsIndependent ==
    \A r \in Reqs :
        /\ pc[r] = "post" =>
               /\ ~Alone(r).over
               /\ attempt[r] = Alone(r).attempt
        /\ Done(r) /\ calls[r] = 0 =>
               res[r] = Outcome(op[r], available[r], arg[r], NotCalled)
        /\ Done(r) /\ calls[r] > 0 /\ available[r] =>
               /\ Alone(r).over
               /\ Len(Posts(r)) = Alone(r).attempts
               /\ mr[r] = Alone(r).value
               /\ res[r] = Outcome(op[r], available[r], arg[r], Alone(r).value)

\* two requests have ended, one after three attempts and one after a single attempt
C17_Witness ==
    \E r \in Reqs, q \in Reqs :
        /\ r # q
        /\ Done(r) /\ Len(Posts(r)) = max_retries /\ mr[r] = None
        /\ Done(q) /\ Len(Posts(q)) = 1 /\ mr[q] = Text(ReplyPlain)

(* ---------------- C18 ---------------- *)

\* the first 1000 characters and '...' of a longer text, a text of up to 1000 as it is
Preview1000(text) ==
    IF Len(text) > 1000 THEN SubSeq(text, 1, 1000) \o <<".", ".", ".">> ELSE text

\* C18 as claimed: the doctorSummary of summarize_document is the preview of the
\* document text cut at 1000 characters, the same for the same document text
\* whatever the client returns.
C18_DoctorSummaryOfTextOnly ==
    \A r \in Reqs :
        Done(r) /\ op[r] = "document" =>
            res[r].value.doctorSummary = Preview1000(arg[r].text)

\* C18 as amended: the doctorSummary of summarize_document is a preview of the
\* document text and never holds text of the reply: cut at 1000 characters when the
\* client returned a non-empty text, whatever that text is, and cut at 500
\* characters on the fallback path (no credential, None, an empty text, an
\* exception); the two are the same for documents of up to 500 characters.
C18_DoctorSummaryOfTextAndPath ==
    \A r \in Reqs :
        Done(r) /\ op[r] = "document" =>
            /\ res[r].value.doctorSummary =
                   IF mr[r].kind = "text" /\ mr[r].text # <<>>
                   THEN Preview1000(arg[r].text)
                   ELSE Preview500(arg[r].text)
            /\ Len(arg[r].text) <= 500 => res[r].value.doctorSummary = arg[r].text

\* a document of 1001 characters summarized with the reply of the model
C18_Witness ==
    \E r \in Reqs :
        /\ Done(r)
        /\ op[r] = "document"
        /\ mr[r] = Text(ReplyScenario)
        /\ Len(arg[r].text) = 1001
        /\ Len(res[r].value.doctorSummary) = 1003

(* ---------------- C19 ---------------- *)

\* the seconds slept after the i-th event of the log of r, a requests.post
WaitAfter(r, i) ==
    IF i < Len(log[r]) THEN log[r][i + 1].n ELSE wait[r]

\* the i-th event of the log of r is followed by a time.sleep, made or pending
SleepsAfter(r, i) ==
    IF i < Len(log[r]) THEN log[r][i + 1].ev = "sleep" ELSE pc[r] = "sleep"

\* C19: the wait after a 429 is 1, 2 and 4 seconds for attempt index 0, 1 and 2
\* (retry_delay * 2^index, retry_delay = 1), and the wait after a timeout or a
\* transport error is 1 second whatever the attempt index.
C19_BackoffDelays ==
    \A r \in Reqs :
        \A i \in 1..Len(log[r]) :
            log[r][i].ev = "post" /\ SleepsAfter(r, i) =>
                /\ log[r][i].out = "429" /\ log[r][i].n = 0 => WaitAfter(r, i) = 1
                /\ log[r][i].out = "429" /\ log[r][i].n = 1 => WaitAfter(r, i) = 2
                /\ log[r][i].out = "429" /\ log[r][i].n = 2 => WaitAfter(r, i) = 4
                /\ log[r][i].out \in {"timeout", "connection_error"} =>
                       WaitAfter(r, i) = 1
                /\ log[r][i].out \in {"429", "timeout"} \cup RequestErrors

\* three 429 answers, slept after for 1, 2 and 4 seconds
C19_Witness ==
    \E r \in Reqs :
        /\ PostOutcomes(r) = <<"429", "429", "429">>
        /\ [i \in 1..Len(Sleeps(r)) |-> Sleeps(r)[i].n] = <<1, 2, 4>>

(* ---------------- C20 ---------------- *)

\* C20: an HTTP status that is neither 2xx nor 429 takes the path of a timeout, 4xx
\* and 5xx alike: on attempt index 0 and 1 the loop sleeps 1 second and goes on, and
\* on attempt index 2 _make_request returns None.
C20_HttpErrorRetriedLikeTimeout ==
    \A r \in Reqs :
        \A i \in 1..Len(log[r]) :
            log[r][i].ev = "post" /\ log[r][i].out \in {"http_4xx", "http_5xx", "timeout"} =>
                /\ log[r][i].n < 2 =>
                       /\ SleepsAfter(r, i)
                       /\ WaitAfter(r, i) = 1
                       /\ i = Len(log[r]) => ~ClientReturned(r)
                /\ log[r][i].n = 2 =>
                       /\ i = Len(log[r])
                       /\ ClientReturned(r)
                       /\ mr[r] = None

\* a 4xx, a 5xx and a 4xx again: None after the third attempt
C20_Witness ==
    \E r \in Reqs :
        /\ PostOutcomes(r) = <<"http_4xx", "http_5xx", "http_4xx">>
        /\ [i \in 1..Len(Sleeps(r)) |-> Sleeps(r)[i].n] = <<1, 1>>
        /\ ClientReturned(r)
        /\ mr[r] = None

(* ---------------- C21 ---------------- *)

\* the label lbl occurs nowhere in s, in any letter case
LabelAbsent(s, lbl) == \A i \in 0..Len(s) : ~LitAt(s, i, lbl)

\* C21: when the PATIENT-FRIENDLY SUMMARY label is absent from the reply,
\* patientSummary is the first 1500 characters of the whole reply, the whole reply
\* when it has no more than 1500 characters, and never longer than 1500 characters.
C21_SummaryFallbackCut ==
    \A r \in Reqs :
        Done(r) /\ op[r] = "parse" /\ LabelAbsent(arg[r].text, LblSummary) =>
            /\ Len(res[r].value.patientSummary) <= 1500
            /\ Len(arg[r].text) <= 1500 => res[r].value.patientSummary = arg[r].text
            /\ Len(arg[r].text) > 1500 =>
                   res[r].value.patientSummary = SubSeq(arg[r].text, 1, 1500)

\* a reply of more than 1500 characters without the label, with a RED FLAGS
\* section after the cut, has been parsed
C21_Witness ==
    \E r \in Reqs :
        /\ Done(r)
        /\ op[r] = "parse"
        /\ LabelAbsent(arg[r].text, LblSummary)
        /\ Len(arg[r].text) > 1500 + Len(LblRedFlags)
        /\ Len(res[r].value.patientSummary) = 1500
        /\ Len(res[r].value.redFlags) = 1

(* ---------------- C22 ---------------- *)

\* C22: the word ACTIONS of the follow-up header is optional: a reply whose header
\* is **FOLLOW-UP** gives the followUps of the same reply under
\* **FOLLOW-UP ACTIONS**, one FollowUp with timing 'As scheduled' for each
\* `- action:` line up to RED FLAGS.
C22_ActionsWordOptional ==
    \A r \in Reqs :
        Done(r) /\ op[r] = "parse" =>
            \A n \in 0..MaxItems :
                arg[r].text = HeaderReply(LblFollowUp, n) =>
                    res[r].value.followUps = ExpectedFollowUps(n)

(* ---------------- C23 ---------------- *)

\* the line begins with '-' or U+2022
BulletLine(line) == line # <<>> /\ line[1] \in BulletChars

\* one trimmed string for each bullet line, in order, and none for another line
FlagsOfLines(lines) ==
    [i \in 1..Len(SelectSeq(lines, BulletLine)) |->
        Strip(Tail(SelectSeq(lines, BulletLine)[i]))]

\* C23: redFlags holds exactly one string, trimmed and non-empty, for every line
\* between the RED FLAGS label and the end of the text that begins with '-' or
\* U+2022, and no string for a line that does not begin with one of these bullets.
C23_OneRedFlagPerBulletLine ==
    \A r \in Reqs :
        Done(r) /\ op[r] = "parse" =>
            \A lines \in RedFlagSpans :
                arg[r].text = RedFlagReply(lines) =>
                    res[r].value.redFlags = FlagsOfLines(lines)

(* ---------------- C24 ---------------- *)

\* the i-th event of the log of r is followed by a requests.post, made or about to
\* be made
PostsAfter(r, i) ==
    IF i < Len(log[r]) THEN log[r][i + 1].ev = "post" ELSE pc[r] = "post"

\* C24: every time.sleep of _make_request is followed by another requests.post, and
\* after the third attempt (index max_retries - 1) there is no sleep: on a 429, a
\* timeout, a transport error or another HTTP error the call returns None at once.
C24_NoSleepAfterFinalAttempt ==
    \A r \in Reqs :
        \A i \in 1..Len(log[r]) :
            /\ log[r][i].ev = "sleep" => PostsAfter(r, i)
            /\ log[r][i].ev = "post" /\ log[r][i].n = max_retries - 1 =>
                   /\ ~SleepsAfter(r, i)
                   /\ log[r][i].out \in {"429"} \cup HardFailures =>
                          /\ i = Len(log[r])
                          /\ ClientReturned(r)
                          /\ mr[r] = None

====
